---- MODULE Spec2Model ----
(***************************************************************************)
(* Model of the MPI example programs under src/examples/slurm-jobs.        *)
(*                                                                         *)
(* The main specification, Spec, is matrix-multiply/matrix-mult.c: one     *)
(* process per rank running main(), the MPI collectives it calls modelled  *)
(* by their MPI semantics (a call is issued, and returns later, once the   *)
(* data it needs is there).                                                *)
(*                                                                         *)
(* Matrix elements are doubles in the program; here an element is the      *)
(* integer number of tenths (rand() % 100), and a product of two elements  *)
(* an integer number of hundredths: floating-point rounding is not         *)
(* modelled.  Buffers are flat row-major sequences, element i of the C     *)
(* array being element i + 1 of the sequence.                              *)
(***************************************************************************)
EXTENDS Integers, Sequences, FiniteSets

\* ------------------------------------------------------------------ bounds
\* The largest number of processes (world_size) of a run.
MaxProcs == 3
\* The largest matrix dimension n given on the command line.
MaxDim == 4
\* The readings of time(NULL) that seed the generator are 0..MaxTime.
MaxTime == 1

\* The non-zero element of a test matrix of the round trip is 1..MaxElem.
MaxElem == 1

\* The largest total_samples given on the command line of pi-monte-carlo.
MaxSamples == 5

\* ------------------------------------------------------------------ state
VARIABLES
    world_size,   \* MPI_Comm_size: the number of processes N
    n,            \* the matrix dimension, atoi(argv[1])
    pc,           \* pc[p]: where rank p is in main()
    mem,          \* mem[p][b]: the state of rank p's pointer b
    A, B, C,      \* A[p], B[p], C[p]: rank p's full matrices (rank 0 only)
    A_local, B_local, C_local,   \* rank p's local buffers
    issued,       \* issued[p]: the collectives rank p has called, in order
    completed,    \* completed[p]: how many of them have returned
    scatterBuf,   \* the send buffer the root handed to MPI_Scatter
    bcastBuf,     \* the buffer the root handed to MPI_Bcast
    gatherBuf,    \* gatherBuf[p]: the block rank p handed to MPI_Gather
    aborted,      \* MPI_Abort has been called on MPI_COMM_WORLD
    out,          \* out[p]: the messages rank p has printed
    timer,        \* timer[p]: which of start_time, end_time rank p has read
    total_samples,   \* pi-monte-carlo: atoll(argv[1])
    local_count,     \* pi-monte-carlo: local_count[p]
    global_count,    \* pi-monte-carlo: global_count[p]
    hostname         \* hello: hostname[p], as gethostname left it

vars == <<world_size, n, pc, mem, A, B, C, A_local, B_local, C_local,
          issued, completed, scatterBuf, bcastBuf, gatherBuf, aborted, out,
          timer, total_samples, local_count, global_count, hostname>>

\* The variables of pi-monte-carlo.c and hello.c alone.
others == <<total_samples, local_count, global_count, hostname>>

\* The ranks of the run.
Procs == 0 .. (world_size - 1)

\* The content of memory malloc returns: not yet written by the program.
Junk == -1

Buffers == {"A_local", "B_local", "C_local", "A", "B", "C"}

\* A buffer of len elements all holding v.
Fill(len, v) == [e \in 1 .. len |-> v]

\* ------------------------------------------------------- pure functions

\* rand(): the C library's generator, as a linear congruential generator
\* (state s -> next state, which is also the value returned).
RandNext(s) == (s * 75 + 74) % 65537

\* The value of the i-th call of rand() (i = 0, 1, ...) after srand(seed).
RECURSIVE RandAt(_, _)
RandAt(seed, i) ==
    IF i = 0 THEN RandNext(seed % 65537) ELSE RandNext(RandAt(seed, i - 1))

\* a * b in the program's int arithmetic, for a, b in 0 .. 2^31 - 1: the low
\* 32 bits of the product, read as a signed (two's complement) int.  The
\* product is formed from the operands' 15-bit digits.
IntMul(a, b) ==
    LET a0 == a % 32768
        a1 == (a \div 32768) % 32768
        a2 == a \div 1073741824
        b0 == b % 32768
        b1 == (b \div 32768) % 32768
        b2 == b \div 1073741824
        c0 == a0 * b0
        c1 == a0 * b1 + a1 * b0 + (c0 \div 32768)
        c2 == a0 * b2 + a1 * b1 + a2 * b0 + (c1 \div 32768)
        top == c2 % 4
    IN  (IF top >= 2 THEN top - 4 ELSE top) * 1073741824
        + (c1 % 32768) * 32768 + (c0 % 32768)

\* initialize_matrix: srand(time(NULL) + rank), then matrix[i] = rand() % 100
\* tenths for i < rows * cols; t is the reading of time(NULL).
initialize_matrix(matrix, rows, cols, rank, t) ==
    [e \in 1 .. Len(matrix) |->
        IF e - 1 < IntMul(rows, cols) THEN RandAt(t + rank, e - 1) % 100
        ELSE matrix[e]]

\* The inner loop stopping one short (k < n - 1).
RECURSIVE InnerLoopShort(_, _, _, _, _, _, _)
InnerLoopShort(Al, Bm, i, j, k, nn, acc) ==
    IF k >= nn - 1 THEN acc
    ELSE InnerLoopShort(Al, Bm, i, j, k + 1, nn,
                        acc + Al[i * nn + k + 1] * Bm[k * nn + j + 1])

\* The inner loop of multiply_matrices over k, from k with the sum so far acc:
\* C_local[i*n+j] += A_local[i*n+k] * B[k*n+j].
RECURSIVE InnerLoop(_, _, _, _, _, _, _)
InnerLoop(Al, Bm, i, j, k, nn, acc) ==
    IF k >= nn THEN acc
    ELSE InnerLoop(Al, Bm, i, j, k + 1, nn,
                   acc + Al[i * nn + k + 1] * Bm[k * nn + j + 1])

\* multiply_matrices with the inner loop reading B transposed (B[j*n+k]).
multiply_transposed(Al, Bm, Cl, lr, nn) ==
    [e \in 1 .. Len(Cl) |->
        IF e - 1 < lr * nn
        THEN InnerLoop(Al, [x \in 1 .. Len(Bm) |->
                              Bm[((x - 1) % nn) * nn + ((x - 1) \div nn) + 1]],
                       (e - 1) \div nn, (e - 1) % nn, 0, nn, 0)
        ELSE Cl[e]]

\* multiply_matrices without C_local[i*n+j] = 0.0 before the accumulation.
multiply_no_reset(Al, Bm, Cl, lr, nn) ==
    [e \in 1 .. Len(Cl) |->
        IF e - 1 < lr * nn
        THEN InnerLoop(Al, Bm, (e - 1) \div nn, (e - 1) % nn, 0, nn, Cl[e])
        ELSE Cl[e]]

\* multiply_matrices: the new content of C_local.  Elements i*n+j for
\* i < local_rows, j < n are set to 0 and accumulated; the others are kept.
multiply_matrices(Al, Bm, Cl, lr, nn) ==
    [e \in 1 .. Len(Cl) |->
        IF e - 1 < lr * nn
        THEN InnerLoop(Al, Bm, (e - 1) \div nn, (e - 1) % nn, 0, nn, 0)
        ELSE Cl[e]]

\* local_rows = n / world_size
local_rows == n \div world_size

\* The validation with the first test written n <= world_size.
ConfigRejectedStrict ==
    IF n <= world_size THEN TRUE
    ELSE IF n % world_size # 0 THEN TRUE
    ELSE FALSE

\* The validation of main(): n < world_size, then n % world_size != 0.
ConfigRejected ==
    IF n < world_size THEN TRUE
    ELSE IF n % world_size # 0 THEN TRUE
    ELSE FALSE

\* ------------------------------------------------------ MPI collectives
\* The block offset counted in rows (i * local_rows) instead of elements.
BlockOffsetRows(i, count) == i * local_rows

\* MPI_Scatter / MPI_Gather: block i of count elements starts at element
\* i * count of the root's buffer.
BlockOffset(i, count) == i * count

\* A scatter that delivers the first block to every rank.
ScatterBlockFirst(sendbuf, i, count) ==
    [e \in 1 .. count |-> sendbuf[e]]

\* The block MPI_Scatter delivers to rank i out of the root's send buffer.
ScatterBlock(sendbuf, i, count) ==
    [e \in 1 .. count |-> sendbuf[BlockOffset(i, count) + e]]

\* The ranks whose block of count elements covers element e (from 0) of the
\* root's buffer.
BlockOwners(e, count) ==
    {q \in Procs : /\ BlockOffset(q, count) <= e
                   /\ e < BlockOffset(q, count) + count}

\* The largest element of a non-empty set of ranks.
MaxRank(S) == CHOOSE q \in S : \A r \in S : r <= q

\* A gather that places the blocks in reverse rank order.
GatherPlaceReversed(recvbuf, blocks, count) ==
    [e \in 1 .. Len(recvbuf) |->
        IF BlockOwners(e - 1, count) = {} THEN recvbuf[e]
        ELSE LET q == MaxRank(BlockOwners(e - 1, count))
             IN  blocks[world_size - 1 - q][e - BlockOffset(q, count)]]

\* The root's receive buffer after MPI_Gather placed every rank's block:
\* element e of rank q's block goes to element BlockOffset(q, count) + e.
GatherPlace(recvbuf, blocks, count) ==
    [e \in 1 .. Len(recvbuf) |->
        IF BlockOwners(e - 1, count) = {} THEN recvbuf[e]
        ELSE LET q == MaxRank(BlockOwners(e - 1, count))
             IN  blocks[q][e - BlockOffset(q, count)]]

\* One collective call, as MPI matches it: kind, root and element count.
Call(kind, root, count) == [kind |-> kind, root |-> root, count |-> count]

\* Rank p has returned from a call of kind k.
Returned(p, k) ==
    \E x \in 1 .. completed[p] : issued[p][x].kind = k

\* How many calls of kind k rank p has issued.
IssuedCount(p, k) ==
    Cardinality({x \in DOMAIN issued[p] : issued[p][x].kind = k})

\* Rank p is inside a collective call that has not returned.
InCall(p) == completed[p] < Len(issued[p])

\* printf on rank p.
Printf(p, msg) == [out EXCEPT ![p] = Append(@, msg)]

\* ------------------------------------------------------------------- Init
\* The state when main() starts on every rank: A = B = C = NULL (line 65),
\* the local pointers not yet set (line 66), nothing printed or called.
Init ==
    /\ world_size \in 1 .. MaxProcs
    /\ n \in -1 .. MaxDim
    /\ pc = [p \in Procs |-> "validate"]
    /\ mem = [p \in Procs |->
                [b \in Buffers |->
                    IF b \in {"A", "B", "C"} THEN "NULL" ELSE "unset"]]
    /\ A = [p \in Procs |-> <<>>]
    /\ B = [p \in Procs |-> <<>>]
    /\ C = [p \in Procs |-> <<>>]
    /\ A_local = [p \in Procs |-> <<>>]
    /\ B_local = [p \in Procs |-> <<>>]
    /\ C_local = [p \in Procs |-> <<>>]
    /\ issued = [p \in Procs |-> <<>>]
    /\ completed = [p \in Procs |-> 0]
    /\ scatterBuf = <<>>
    /\ bcastBuf = <<>>
    /\ gatherBuf = [p \in Procs |-> <<>>]
    /\ aborted = FALSE
    /\ out = [p \in Procs |-> <<>>]
    /\ timer = [p \in Procs |-> {}]
    /\ total_samples = 0
    /\ local_count = [p \in Procs |-> 0]
    /\ global_count = [p \in Procs |-> 0]
    /\ hostname = [p \in Procs |-> ""]

data == <<A, B, C, A_local, B_local, C_local>>
net == <<issued, completed, scatterBuf, bcastBuf, gatherBuf>>

\* ---------------------------------------------------------------- actions

\* The rejection with MPI_Finalize and return 1 inside the rank 0 branch: the
\* other ranks go on.
ValidateRejectRootOnly(p) ==
    /\ pc[p] = "validate"
    /\ ConfigRejected
    /\ pc' = [pc EXCEPT ![p] = IF p = 0 THEN "exit1" ELSE "barrier1"]
    /\ out' = IF p = 0 THEN Printf(p, "Error: Matrix size") ELSE out
    /\ UNCHANGED <<timer, others>>
    /\ UNCHANGED <<world_size, n, mem, data, net, aborted>>

\* Lines 82-99: the configuration is rejected; rank 0 prints the error,
\* MPI_Finalize, return 1.
ValidateReject(p) ==
    /\ pc[p] = "validate"
    /\ ConfigRejected
    /\ pc' = [pc EXCEPT ![p] = "exit1"]
    /\ out' = IF p = 0 THEN Printf(p, "Error: Matrix size") ELSE out
    /\ UNCHANGED <<timer, others>>
    /\ UNCHANGED <<world_size, n, mem, data, net, aborted>>

\* The acceptance with the configuration printed by every rank.
ValidateAcceptAllPrint(p) ==
    /\ pc[p] = "validate"
    /\ ~ConfigRejected
    /\ pc' = [pc EXCEPT ![p] = "alloc"]
    /\ out' = Printf(p, "Parallel Matrix Multiplication")
    /\ UNCHANGED <<timer, others>>
    /\ UNCHANGED <<world_size, n, mem, data, net, aborted>>

\* Lines 82-116: the configuration is accepted; local_rows is computed and
\* rank 0 prints the configuration.
ValidateAccept(p) ==
    /\ pc[p] = "validate"
    /\ ~ConfigRejected
    /\ pc' = [pc EXCEPT ![p] = "alloc"]
    /\ out' = IF p = 0 THEN Printf(p, "Parallel Matrix Multiplication") ELSE out
    /\ UNCHANGED <<timer, others>>
    /\ UNCHANGED <<world_size, n, mem, data, net, aborted>>

\* The pointer state malloc leaves: live, or failed (NULL returned).
Malloc(ok) == IF ok THEN "live" ELSE "failed"

\* The content of a buffer of len elements malloc was asked for.
Alloc(ok, len) == IF ok THEN Fill(len, Junk) ELSE <<>>

\* Lines 118-126 where an allocation failed: the rank returns 1 on its own,
\* without MPI_Abort.
AllocFailReturn(p, oa, ob, oc) ==
    /\ pc' = [pc EXCEPT ![p] = "exit1"]
    /\ out' = Printf(p, "Memory allocation failed")
    /\ UNCHANGED aborted

\* Lines 123-126 where an allocation failed: every rank prints, and calls
\* MPI_Abort(MPI_COMM_WORLD, 1), which does not return.
AllocFail(p, oa, ob, oc) ==
    /\ pc' = [pc EXCEPT ![p] = "aborted"]
    /\ out' = Printf(p, "Memory allocation failed")
    /\ aborted' = TRUE

\* Lines 118-126: the three local buffers are allocated; oa, ob, oc say
\* which of the malloc calls succeed.
AllocLocal(p) ==
    /\ pc[p] = "alloc"
    /\ \E oa, ob, oc \in BOOLEAN :
        /\ mem' = [mem EXCEPT ![p]["A_local"] = Malloc(oa),
                              ![p]["B_local"] = Malloc(ob),
                              ![p]["C_local"] = Malloc(oc)]
        /\ A_local' = [A_local EXCEPT ![p] = Alloc(oa, IntMul(local_rows, n))]
        /\ B_local' = [B_local EXCEPT ![p] = Alloc(ob, IntMul(n, n))]
        /\ C_local' = [C_local EXCEPT ![p] = Alloc(oc, IntMul(local_rows, n))]
        /\ IF oa /\ ob /\ oc
           THEN /\ pc' = [pc EXCEPT ![p] = IF p = 0 THEN "root_init"
                                                    ELSE "barrier1"]
                /\ UNCHANGED <<out, aborted>>
           ELSE AllocFail(p, oa, ob, oc)
    /\ UNCHANGED <<timer, others>>
    /\ UNCHANGED <<world_size, n, A, B, C, net>>

\* Lines 135-138 where a full-matrix allocation failed: rank 0 prints and
\* calls MPI_Abort(MPI_COMM_WORLD, 1), which does not return.
RootAllocFail(p) ==
    /\ pc' = [pc EXCEPT ![p] = "aborted"]
    /\ out' = [out EXCEPT ![p] = @ \o <<"Initializing matrices...",
                         "Memory allocation failed for full matrices">>]
    /\ aborted' = TRUE

\* Lines 128-149, rank 0 only: the full matrices are allocated, A and B are
\* initialized from the clock readings tA <= tB, small matrices are printed.
RootInit(p) ==
    /\ pc[p] = "root_init"
    /\ p = 0
    /\ \E oa, ob, oc \in BOOLEAN :
        /\ mem' = [mem EXCEPT ![p]["A"] = Malloc(oa),
                              ![p]["B"] = Malloc(ob),
                              ![p]["C"] = Malloc(oc)]
        /\ C' = [C EXCEPT ![p] = Alloc(oc, IntMul(n, n))]
        /\ IF oa /\ ob /\ oc
           THEN \E tA, tB \in 0 .. MaxTime :
                /\ tA <= tB
                /\ A' = [A EXCEPT ![p] =
                            initialize_matrix(Alloc(oa, IntMul(n, n)),
                                              n, n, p, tA)]
                /\ B' = [B EXCEPT ![p] =
                            initialize_matrix(Alloc(ob, IntMul(n, n)),
                                              n, n, p + 1, tB)]
                /\ pc' = [pc EXCEPT ![p] = "barrier1"]
                /\ out' = Printf(p, "Initializing matrices...")
                /\ UNCHANGED aborted
           ELSE /\ A' = [A EXCEPT ![p] = Alloc(oa, IntMul(n, n))]
                /\ B' = [B EXCEPT ![p] = Alloc(ob, IntMul(n, n))]
                /\ RootAllocFail(p)
    /\ UNCHANGED <<timer, others>>
    /\ UNCHANGED <<world_size, n, A_local, B_local, C_local, net>>

\* MPI_Abort reaches rank p: a rank still running is terminated where it is.
Killed(p) ==
    /\ aborted
    /\ pc[p] \notin {"exit0", "exit1", "aborted", "killed"}
    /\ pc' = [pc EXCEPT ![p] = "killed"]
    /\ UNCHANGED <<timer, others>>
    /\ UNCHANGED <<world_size, n, mem, data, net, aborted, out>>

\* Rank p calls a collective: the call is appended to its history.
Issue(p, call) == [issued EXCEPT ![p] = Append(@, call)]

\* The collective call rank p is in returns.
Return(p) == [completed EXCEPT ![p] = @ + 1]

\* A barrier that returns without waiting for the other ranks.
BarrierOpenAlways(p) == TRUE

\* MPI_Barrier returns on rank p at its k-th barrier once every rank has
\* entered its k-th barrier.
BarrierOpen(p) ==
    \A q \in Procs : IssuedCount(q, "barrier") >= IssuedCount(p, "barrier")

\* Line 152 and line 190, the call: MPI_Barrier(MPI_COMM_WORLD).
BarrierIssue(p) ==
    /\ pc[p] \in {"barrier1", "barrier2"}
    /\ issued' = Issue(p, Call("barrier", 0, 0))
    /\ pc' = [pc EXCEPT ![p] = IF pc[p] = "barrier1" THEN "barrier1_wait"
                                                       ELSE "barrier2_wait"]
    /\ UNCHANGED <<timer, others>>
    /\ UNCHANGED <<world_size, n, mem, data, completed, scatterBuf, bcastBuf,
                   gatherBuf, aborted, out>>

\* The start of the timing left out: start_time is never read.
SkipStartTime(p) == timer

\* Line 153: start_time = MPI_Wtime().
ReadStartTime(p) == [timer EXCEPT ![p] = @ \cup {"start_time"}]

\* Line 191: end_time = MPI_Wtime().
ReadEndTime(p) == [timer EXCEPT ![p] = @ \cup {"end_time"}]

\* Lines 152-158: the first barrier returns; start_time is read and rank 0
\* prints that it distributes A.
Barrier1Return(p) ==
    /\ pc[p] = "barrier1_wait"
    /\ BarrierOpen(p)
    /\ completed' = Return(p)
    /\ timer' = ReadStartTime(p)
    /\ pc' = [pc EXCEPT ![p] = "scatter"]
    /\ out' = IF p = 0 THEN Printf(p, "Distributing matrix A...") ELSE out
    /\ UNCHANGED others
    /\ UNCHANGED <<world_size, n, mem, data, issued, scatterBuf, bcastBuf,
                   gatherBuf, aborted>>

\* Lines 159-161, the call: MPI_Scatter(A, local_rows * n, ..., A_local,
\* local_rows * n, ..., 0, MPI_COMM_WORLD).  On the root the send buffer A is
\* handed to MPI.
ScatterIssue(p) ==
    /\ pc[p] = "scatter"
    /\ issued' = Issue(p, Call("scatter", 0, IntMul(local_rows, n)))
    /\ scatterBuf' = IF p = 0 THEN A[p] ELSE scatterBuf
    /\ pc' = [pc EXCEPT ![p] = "scatter_wait"]
    /\ UNCHANGED <<timer, others>>
    /\ UNCHANGED <<world_size, n, mem, data, completed, bcastBuf, gatherBuf,
                   aborted, out>>

\* A scatter in which the root writes every rank's A_local itself.
ScatterReturnPush(p) ==
    /\ pc[p] = "scatter_wait"
    /\ IssuedCount(0, "scatter") >= 1
    /\ A_local' = IF p = 0
                  THEN [q \in Procs |->
                          ScatterBlock(scatterBuf, q, IntMul(local_rows, n))]
                  ELSE A_local
    /\ completed' = Return(p)
    /\ pc' = [pc EXCEPT ![p] = "bcast"]
    /\ out' = IF p = 0 THEN Printf(p, "Broadcasting matrix B...") ELSE out
    /\ UNCHANGED <<timer, others>>
    /\ UNCHANGED <<world_size, n, mem, A, B, C, B_local, C_local, issued,
                   scatterBuf, bcastBuf, gatherBuf, aborted>>

\* Lines 159-166: MPI_Scatter returns on rank p with block p in A_local, which
\* needs the root to have called it; rank 0 prints that it broadcasts B.
ScatterReturn(p) ==
    /\ pc[p] = "scatter_wait"
    /\ IssuedCount(0, "scatter") >= 1
    /\ A_local' = [A_local EXCEPT ![p] =
                      ScatterBlock(scatterBuf, p, IntMul(local_rows, n))]
    /\ completed' = Return(p)
    /\ pc' = [pc EXCEPT ![p] = "bcast"]
    /\ out' = IF p = 0 THEN Printf(p, "Broadcasting matrix B...") ELSE out
    /\ UNCHANGED <<timer, others>>
    /\ UNCHANGED <<world_size, n, mem, A, B, C, B_local, C_local, issued,
                   scatterBuf, bcastBuf, gatherBuf, aborted>>

\* The broadcast without the copy of B into B_local on rank 0.
CopyBNone(p) == B_local

\* Lines 167-172: rank 0 copies B into B_local, elements 0 .. n*n - 1.
CopyB(p) ==
    IF p = 0
    THEN [B_local EXCEPT ![p] =
            [e \in 1 .. Len(@) |->
                IF e - 1 < IntMul(n, n) THEN B[p][e] ELSE @[e]]]
    ELSE B_local

\* The broadcast called by the ranks other than 0 only.
BcastIssueOthers(p) ==
    /\ pc[p] = "bcast"
    /\ B_local' = CopyB(p)
    /\ issued' = IF p = 0 THEN issued
                         ELSE Issue(p, Call("bcast", 0, IntMul(n, n)))
    /\ UNCHANGED bcastBuf
    /\ pc' = [pc EXCEPT ![p] = IF p = 0 THEN "multiply" ELSE "bcast_wait"]
    /\ UNCHANGED <<timer, others>>
    /\ UNCHANGED <<world_size, n, mem, A, B, C, A_local, C_local, completed,
                   scatterBuf, gatherBuf, aborted, out>>

\* Lines 167-173, the call: after the copy on rank 0,
\* MPI_Bcast(B_local, n * n, ..., 0, MPI_COMM_WORLD).  On the root the buffer
\* B_local is handed to MPI.
BcastIssue(p) ==
    /\ pc[p] = "bcast"
    /\ B_local' = CopyB(p)
    /\ issued' = Issue(p, Call("bcast", 0, IntMul(n, n)))
    /\ bcastBuf' = IF p = 0 THEN B_local'[p] ELSE bcastBuf
    /\ pc' = [pc EXCEPT ![p] = "bcast_wait"]
    /\ UNCHANGED <<timer, others>>
    /\ UNCHANGED <<world_size, n, mem, A, B, C, A_local, C_local, completed,
                   scatterBuf, gatherBuf, aborted, out>>

\* Lines 173-178: MPI_Bcast returns on rank p with the root's buffer in
\* B_local, which needs the root to have called it; rank 0 prints that it
\* computes.
BcastReturn(p) ==
    /\ pc[p] = "bcast_wait"
    /\ IssuedCount(0, "bcast") >= 1
    /\ B_local' = [B_local EXCEPT ![p] =
                      [e \in 1 .. Len(@) |->
                          IF e - 1 < IntMul(n, n) THEN bcastBuf[e] ELSE @[e]]]
    /\ completed' = Return(p)
    /\ pc' = [pc EXCEPT ![p] = "multiply"]
    /\ out' = IF p = 0 THEN Printf(p, "Computing matrix multiplication...")
                       ELSE out
    /\ UNCHANGED <<timer, others>>
    /\ UNCHANGED <<world_size, n, mem, A, B, C, A_local, C_local, issued,
                   scatterBuf, bcastBuf, gatherBuf, aborted>>

\* Lines 179-184: multiply_matrices(A_local, B_local, C_local, local_rows, n);
\* rank 0 prints that it gathers.
Multiply(p) ==
    /\ pc[p] = "multiply"
    /\ C_local' = [C_local EXCEPT ![p] =
                      multiply_matrices(A_local[p], B_local[p], @,
                                        local_rows, n)]
    /\ pc' = [pc EXCEPT ![p] = "gather"]
    /\ out' = IF p = 0 THEN Printf(p, "Gathering results...") ELSE out
    /\ UNCHANGED <<timer, others>>
    /\ UNCHANGED <<world_size, n, mem, A, B, C, A_local, B_local, net,
                   aborted>>

\* The gather called with the count of the full matrix, n * n.
GatherIssueFull(p) ==
    /\ pc[p] = "gather"
    /\ issued' = Issue(p, Call("gather", 0, IntMul(n, n)))
    /\ gatherBuf' = [gatherBuf EXCEPT ![p] = C_local[p]]
    /\ pc' = [pc EXCEPT ![p] = "gather_wait"]
    /\ UNCHANGED <<timer, others>>
    /\ UNCHANGED <<world_size, n, mem, data, completed, scatterBuf, bcastBuf,
                   aborted, out>>

\* Lines 185-187, the call: MPI_Gather(C_local, local_rows * n, ..., C,
\* local_rows * n, ..., 0, MPI_COMM_WORLD).  The send buffer C_local is handed
\* to MPI.
GatherIssue(p) ==
    /\ pc[p] = "gather"
    /\ issued' = Issue(p, Call("gather", 0, IntMul(local_rows, n)))
    /\ gatherBuf' = [gatherBuf EXCEPT ![p] = C_local[p]]
    /\ pc' = [pc EXCEPT ![p] = "gather_wait"]
    /\ UNCHANGED <<timer, others>>
    /\ UNCHANGED <<world_size, n, mem, data, completed, scatterBuf, bcastBuf,
                   aborted, out>>

\* Lines 185-187: MPI_Gather returns.  On the root that needs every rank to
\* have called it, and C then holds every rank's block at its offset; on the
\* other ranks it returns once the block is handed over.
GatherReturn(p) ==
    /\ pc[p] = "gather_wait"
    /\ IF p = 0
       THEN /\ \A q \in Procs : IssuedCount(q, "gather") >= 1
            /\ C' = [C EXCEPT ![p] =
                        GatherPlace(@, gatherBuf, IntMul(local_rows, n))]
       ELSE UNCHANGED C
    /\ completed' = Return(p)
    /\ pc' = [pc EXCEPT ![p] = "barrier2"]
    /\ UNCHANGED <<timer, others>>
    /\ UNCHANGED <<world_size, n, mem, A, B, A_local, B_local, C_local,
                   issued, scatterBuf, bcastBuf, gatherBuf, aborted, out>>

\* Lines 190-191: the second barrier returns; end_time is read.
Barrier2Return(p) ==
    /\ pc[p] = "barrier2_wait"
    /\ BarrierOpen(p)
    /\ completed' = Return(p)
    /\ timer' = ReadEndTime(p)
    /\ pc' = [pc EXCEPT ![p] = "report"]
    /\ UNCHANGED others
    /\ UNCHANGED <<world_size, n, mem, data, issued, scatterBuf, bcastBuf,
                   gatherBuf, aborted, out>>

\* Lines 193-211: rank 0 prints the result matrix (n <= 10), the time and
\* the rate.
Report(p) ==
    /\ pc[p] = "report"
    /\ out' = IF p = 0 THEN Printf(p, "Results") ELSE out
    /\ pc' = [pc EXCEPT ![p] = "cleanup"]
    /\ UNCHANGED <<timer, others>>
    /\ UNCHANGED <<world_size, n, mem, data, net, aborted>>

\* The cleanup without the free of the full matrices on rank 0.
CleanupLocalOnly(p) ==
    /\ pc[p] = "cleanup"
    /\ mem' = [mem EXCEPT ![p] =
                  [b \in Buffers |->
                      IF b \in {"A_local", "B_local", "C_local"}
                      THEN "freed" ELSE @[b]]]
    /\ pc' = [pc EXCEPT ![p] = "exit0"]
    /\ UNCHANGED <<timer, others>>
    /\ UNCHANGED <<world_size, n, data, net, aborted, out>>

\* Lines 213-226: the local buffers are freed, on rank 0 the full matrices
\* too; MPI_Finalize; return 0.  mem records the free; the model keeps the
\* last content of a freed buffer.
Cleanup(p) ==
    /\ pc[p] = "cleanup"
    /\ mem' = [mem EXCEPT ![p] =
                  [b \in Buffers |->
                      IF b \in {"A_local", "B_local", "C_local"} \/ p = 0
                      THEN "freed" ELSE @[b]]]
    /\ pc' = [pc EXCEPT ![p] = "exit0"]
    /\ UNCHANGED <<timer, others>>
    /\ UNCHANGED <<world_size, n, data, net, aborted, out>>

\* Some rank takes a step.
Next ==
    \/ \E p \in Procs : ValidateReject(p)
    \/ \E p \in Procs : ValidateAccept(p)
    \/ \E p \in Procs : AllocLocal(p)
    \/ \E p \in Procs : RootInit(p)
    \/ \E p \in Procs : BarrierIssue(p)
    \/ \E p \in Procs : Barrier1Return(p)
    \/ \E p \in Procs : ScatterIssue(p)
    \/ \E p \in Procs : ScatterReturn(p)
    \/ \E p \in Procs : BcastIssue(p)
    \/ \E p \in Procs : BcastReturn(p)
    \/ \E p \in Procs : Multiply(p)
    \/ \E p \in Procs : GatherIssue(p)
    \/ \E p \in Procs : GatherReturn(p)
    \/ \E p \in Procs : Barrier2Return(p)
    \/ \E p \in Procs : Report(p)
    \/ \E p \in Procs : Cleanup(p)
    \/ \E p \in Procs : Killed(p)

Spec == Init /\ [][Next]_vars

\* The scheduler runs some rank that can take a step.
FairSpec == Spec /\ WF_vars(Next)

\* ------------------------------------------- the scatter/gather round trip
\* The distribution alone: main()'s MPI_Scatter of A and MPI_Gather into C
\* on test matrices, the row slices handed from the one to the other as they
\* arrived (no broadcast, no multiply).

\* The test matrices of dimension nn: one non-zero element, at any place, and
\* the matrix whose elements are all different.
RTMatrices(nn) ==
    {[e \in 1 .. nn * nn |-> IF e = h THEN v ELSE 0] :
        h \in 1 .. nn * nn, v \in 1 .. MaxElem}
    \cup {[e \in 1 .. nn * nn |-> e]}

\* Every rank is about to call MPI_Scatter (line 159) with its buffers
\* allocated, the coordinator's A a test matrix.
RTInit ==
    /\ world_size \in 1 .. MaxProcs
    /\ n \in 1 .. MaxDim
    /\ ~ConfigRejected
    /\ pc = [p \in Procs |-> "scatter"]
    /\ mem = [p \in Procs |->
                [b \in Buffers |->
                    IF b \in {"A", "B", "C"} /\ p # 0 THEN "NULL" ELSE "live"]]
    /\ \E m \in RTMatrices(n) : A = [p \in Procs |-> IF p = 0 THEN m ELSE <<>>]
    /\ B = [p \in Procs |-> <<>>]
    /\ C = [p \in Procs |-> IF p = 0 THEN Fill(IntMul(n, n), Junk) ELSE <<>>]
    /\ A_local = [p \in Procs |-> Fill(IntMul(local_rows, n), Junk)]
    /\ B_local = [p \in Procs |-> <<>>]
    /\ C_local = [p \in Procs |-> Fill(IntMul(local_rows, n), Junk)]
    /\ issued = [p \in Procs |-> <<>>]
    /\ completed = [p \in Procs |-> 0]
    /\ scatterBuf = <<>>
    /\ bcastBuf = <<>>
    /\ gatherBuf = [p \in Procs |-> <<>>]
    /\ aborted = FALSE
    /\ out = [p \in Procs |-> <<>>]
    /\ timer = [p \in Procs |-> {}]
    /\ total_samples = 0
    /\ local_count = [p \in Procs |-> 0]
    /\ global_count = [p \in Procs |-> 0]
    /\ hostname = [p \in Procs |-> ""]

\* Rank p hands the slice it received to the gather unmodified.
RTKeepSlice(p) ==
    /\ pc[p] = "bcast"
    /\ C_local' = [C_local EXCEPT ![p] = A_local[p]]
    /\ pc' = [pc EXCEPT ![p] = "gather"]
    /\ UNCHANGED <<timer, others>>
    /\ UNCHANGED <<world_size, n, mem, A, B, C, A_local, B_local, net,
                   aborted, out>>

RTNext ==
    \/ \E p \in Procs : ScatterIssue(p)
    \/ \E p \in Procs : ScatterReturn(p)
    \/ \E p \in Procs : RTKeepSlice(p)
    \/ \E p \in Procs : GatherIssue(p)
    \/ \E p \in Procs : GatherReturn(p)

RTSpec == RTInit /\ [][RTNext]_vars

\* ----------------------------------------------- the kernel on test inputs
\* main() from MPI_Scatter to MPI_Gather (lines 159-187) on chosen matrices:
\* A a test matrix, B the identity or a matrix of different elements, and
\* C_local holding either of two contents before the kernel runs.  Elements
\* are plain integers here.

\* The nn x nn identity matrix.
Identity(nn) ==
    [e \in 1 .. nn * nn |-> IF (e - 1) \div nn = (e - 1) % nn THEN 1 ELSE 0]

\* The test matrices: all elements different, or drawn by initialize_matrix.
KMatrices(nn) ==
    {[e \in 1 .. nn * nn |-> e]}
    \cup {initialize_matrix(Fill(nn * nn, Junk), nn, nn, 0, t) :
             t \in 0 .. MaxTime}

\* Every rank is about to call MPI_Scatter (line 159) with its buffers
\* allocated.
KInit ==
    /\ world_size \in 1 .. MaxProcs
    /\ n \in 1 .. MaxDim
    /\ ~ConfigRejected
    /\ pc = [p \in Procs |-> "scatter"]
    /\ mem = [p \in Procs |->
                [b \in Buffers |->
                    IF b \in {"A", "B", "C"} /\ p # 0 THEN "NULL" ELSE "live"]]
    /\ \E m \in KMatrices(n) : A = [p \in Procs |-> IF p = 0 THEN m ELSE <<>>]
    /\ \E m \in {Identity(n), [e \in 1 .. n * n |-> e + 1]} :
          B = [p \in Procs |-> IF p = 0 THEN m ELSE <<>>]
    /\ C = [p \in Procs |-> IF p = 0 THEN Fill(n * n, Junk) ELSE <<>>]
    /\ A_local = [p \in Procs |-> Fill(local_rows * n, Junk)]
    /\ B_local = [p \in Procs |-> Fill(n * n, Junk)]
    /\ \E g \in {Junk, 1} :
          C_local = [p \in Procs |-> Fill(local_rows * n, g)]
    /\ issued = [p \in Procs |-> <<>>]
    /\ completed = [p \in Procs |-> 0]
    /\ scatterBuf = <<>>
    /\ bcastBuf = <<>>
    /\ gatherBuf = [p \in Procs |-> <<>>]
    /\ aborted = FALSE
    /\ out = [p \in Procs |-> <<>>]
    /\ timer = [p \in Procs |-> {"start_time"}]
    /\ total_samples = 0
    /\ local_count = [p \in Procs |-> 0]
    /\ global_count = [p \in Procs |-> 0]
    /\ hostname = [p \in Procs |-> ""]

KNext ==
    \/ \E p \in Procs : ScatterIssue(p)
    \/ \E p \in Procs : ScatterReturn(p)
    \/ \E p \in Procs : BcastIssue(p)
    \/ \E p \in Procs : BcastReturn(p)
    \/ \E p \in Procs : Multiply(p)
    \/ \E p \in Procs : GatherIssue(p)
    \/ \E p \in Procs : GatherReturn(p)

KSpec == KInit /\ [][KNext]_vars

\* ------------------------------------------------- the counts in int
\* main() on large dimensions: the validation and the counts it hands to
\* MPI_Scatter, MPI_Bcast and MPI_Gather (the expressions local_rows * n and
\* n * n of lines 112-187), without the buffers, which are too large to hold.

\* The dimensions tried: the small ones, and those around 46340, the largest
\* n whose square is below 2^31.
IntDims ==
    (0 .. MaxDim) \cup {46340 - MaxDim + d : d \in 0 .. (2 * MaxDim)}

IntInit ==
    /\ world_size \in 1 .. MaxProcs
    /\ n \in IntDims
    /\ pc = [p \in Procs |-> "validate"]
    /\ mem = [p \in Procs |->
                [b \in Buffers |->
                    IF b \in {"A", "B", "C"} THEN "NULL" ELSE "unset"]]
    /\ A = [p \in Procs |-> <<>>]
    /\ B = [p \in Procs |-> <<>>]
    /\ C = [p \in Procs |-> <<>>]
    /\ A_local = [p \in Procs |-> <<>>]
    /\ B_local = [p \in Procs |-> <<>>]
    /\ C_local = [p \in Procs |-> <<>>]
    /\ issued = [p \in Procs |-> <<>>]
    /\ completed = [p \in Procs |-> 0]
    /\ scatterBuf = <<>>
    /\ bcastBuf = <<>>
    /\ gatherBuf = [p \in Procs |-> <<>>]
    /\ aborted = FALSE
    /\ out = [p \in Procs |-> <<>>]
    /\ timer = [p \in Procs |-> {}]
    /\ total_samples = 0
    /\ local_count = [p \in Procs |-> 0]
    /\ global_count = [p \in Procs |-> 0]
    /\ hostname = [p \in Procs |-> ""]

\* Rank p goes on to its next collective call; what lies between (the
\* allocations, the barrier, the data received, the kernel) is left out.
IntAdvance(p) ==
    /\ pc[p] \in {"alloc", "scatter_wait", "bcast_wait"}
    /\ pc' = [pc EXCEPT ![p] = CASE pc[p] = "alloc" -> "scatter"
                                 [] pc[p] = "scatter_wait" -> "bcast"
                                 [] pc[p] = "bcast_wait" -> "gather"]
    /\ UNCHANGED <<timer, others>>
    /\ UNCHANGED <<world_size, n, mem, data, net, aborted, out>>

IntNext ==
    \/ \E p \in Procs : ValidateReject(p)
    \/ \E p \in Procs : ValidateAccept(p)
    \/ \E p \in Procs : IntAdvance(p)
    \/ \E p \in Procs : ScatterIssue(p)
    \/ \E p \in Procs : BcastIssue(p)
    \/ \E p \in Procs : GatherIssue(p)

IntSpec == IntInit /\ [][IntNext]_vars

\* ------------------------------------------------------ pi-monte-carlo
\* pi-monte-carlo.c, on the variables world_size, pc, issued, completed, out
\* and timer of above and its own total_samples, local_count, global_count.

\* The variables of the other programs, which this one leaves alone.
mmvars == <<n, mem, data, scatterBuf, bcastBuf, gatherBuf, aborted, hostname>>

\* RAND_MAX, scaled down with the generator.
RAND_MAX == 1023

\* Line 83: samples_per_proc = total_samples / world_size (both positive
\* here, so that C's division is the floor).
samples_per_proc == total_samples \div world_size

\* Lines 37-47: the loop of count_circle_points from iteration i on. rand_r
\* advances the seed and returns a value of 0 .. RAND_MAX; the point (x, y) =
\* (rx / RAND_MAX, ry / RAND_MAX) is counted when x * x + y * y <= 1.0.
RECURSIVE CountLoop(_, _, _, _)
CountLoop(i, num_samples, seed, count) ==
    IF i >= num_samples THEN count
    ELSE LET s1 == RandNext(seed)
             s2 == RandNext(s1)
             rx == s1 % (RAND_MAX + 1)
             ry == s2 % (RAND_MAX + 1)
         IN  CountLoop(i + 1, num_samples, s2,
                       IF rx * rx + ry * ry <= RAND_MAX * RAND_MAX
                       THEN count + 1 ELSE count)

\* Lines 29-50: count_circle_points(num_samples, rank), when time(NULL)
\* returns t: the seed is t + rank.
count_circle_points(num_samples, rank, t) ==
    CountLoop(0, num_samples, t + rank, 0)

\* MPI_MAX on two values.
MPI_MAX(a, b) == IF a >= b THEN a ELSE b

\* MPI_SUM on two values.
MPI_SUM(a, b) == a + b

\* Lines 110-111: what MPI_Reduce with MPI_SUM leaves on the root, the send
\* buffers local_count of the ranks 0 .. k combined.
RECURSIVE Reduce(_)
Reduce(k) ==
    IF k = 0 THEN local_count[0] ELSE MPI_SUM(Reduce(k - 1), local_count[k])

PiInit ==
    /\ world_size \in 1 .. MaxProcs
    /\ total_samples \in -1 .. MaxSamples
    /\ pc = [p \in Procs |-> "validate"]
    /\ local_count = [p \in Procs |-> Junk]
    /\ global_count = [p \in Procs |-> Junk]
    /\ issued = [p \in Procs |-> <<>>]
    /\ completed = [p \in Procs |-> 0]
    /\ out = [p \in Procs |-> <<>>]
    /\ timer = [p \in Procs |-> {}]
    /\ n = 0
    /\ mem = [p \in Procs |-> [b \in Buffers |-> "unset"]]
    /\ A = [p \in Procs |-> <<>>]
    /\ B = [p \in Procs |-> <<>>]
    /\ C = [p \in Procs |-> <<>>]
    /\ A_local = [p \in Procs |-> <<>>]
    /\ B_local = [p \in Procs |-> <<>>]
    /\ C_local = [p \in Procs |-> <<>>]
    /\ scatterBuf = <<>>
    /\ bcastBuf = <<>>
    /\ gatherBuf = [p \in Procs |-> <<>>]
    /\ aborted = FALSE
    /\ hostname = [p \in Procs |-> ""]

\* Lines 73-80: too few samples; rank 0 prints the error, and every rank
\* calls MPI_Finalize and returns 1.
PiValidateReject(p) ==
    /\ pc[p] = "validate"
    /\ total_samples < world_size
    /\ out' = IF p = 0 THEN Printf(p, "Error: Total samples") ELSE out
    /\ pc' = [pc EXCEPT ![p] = "exit1"]
    /\ UNCHANGED <<world_size, total_samples, local_count, global_count,
                   issued, completed, timer, mmvars>>

\* Lines 73-96: enough samples; rank 0 prints the configuration.
PiValidateAccept(p) ==
    /\ pc[p] = "validate"
    /\ ~(total_samples < world_size)
    /\ out' = IF p = 0 THEN Printf(p, "Parallel Monte Carlo Pi Estimation")
                       ELSE out
    /\ pc' = [pc EXCEPT ![p] = "barrier1"]
    /\ UNCHANGED <<world_size, total_samples, local_count, global_count,
                   issued, completed, timer, mmvars>>

\* Lines 99-103: the first barrier returns; start_time is read and the rank
\* counts its samples_per_proc points.
PiBarrier1Return(p) ==
    /\ pc[p] = "barrier1_wait"
    /\ BarrierOpen(p)
    /\ completed' = Return(p)
    /\ timer' = ReadStartTime(p)
    /\ \E t \in 0 .. MaxTime :
          local_count' = [local_count EXCEPT
                             ![p] = count_circle_points(samples_per_proc,
                                                        p, t)]
    /\ pc' = [pc EXCEPT ![p] = "reduce"]
    /\ UNCHANGED <<world_size, total_samples, global_count, issued, out,
                   mmvars>>

\* Lines 110-111, the call: MPI_Reduce(&local_count, &global_count, 1,
\* MPI_LONG_LONG, MPI_SUM, 0, MPI_COMM_WORLD).
PiReduceIssue(p) ==
    /\ pc[p] = "reduce"
    /\ issued' = Issue(p, Call("reduce", 0, 1))
    /\ pc' = [pc EXCEPT ![p] = "reduce_wait"]
    /\ UNCHANGED <<world_size, total_samples, local_count, global_count,
                   completed, out, timer, mmvars>>

\* Lines 110-111, the return: on the root once every rank has called, with
\* the reduction in global_count; on the others at once, their global_count
\* not written.
PiReduceReturn(p) ==
    /\ pc[p] = "reduce_wait"
    /\ p = 0 => \A q \in Procs : IssuedCount(q, "reduce") = 1
    /\ completed' = Return(p)
    /\ global_count' = IF p = 0
                       THEN [global_count EXCEPT ![p] = Reduce(world_size - 1)]
                       ELSE global_count
    /\ pc' = [pc EXCEPT ![p] = "barrier2"]
    /\ UNCHANGED <<world_size, total_samples, local_count, issued, out,
                   timer, mmvars>>

\* Lines 114-115: the second barrier returns; end_time is read.
PiBarrier2Return(p) ==
    /\ pc[p] = "barrier2_wait"
    /\ BarrierOpen(p)
    /\ completed' = Return(p)
    /\ timer' = ReadEndTime(p)
    /\ pc' = [pc EXCEPT ![p] = "report"]
    /\ UNCHANGED <<world_size, total_samples, local_count, global_count,
                   issued, out, mmvars>>

\* Lines 118-153: rank 0 prints the results; MPI_Finalize and return 0.
PiReport(p) ==
    /\ pc[p] = "report"
    /\ out' = IF p = 0 THEN Printf(p, "Results") ELSE out
    /\ pc' = [pc EXCEPT ![p] = "done"]
    /\ UNCHANGED <<world_size, total_samples, local_count, global_count,
                   issued, completed, timer, mmvars>>

PiNext ==
    \/ \E p \in Procs : PiValidateReject(p)
    \/ \E p \in Procs : PiValidateAccept(p)
    \/ \E p \in Procs : BarrierIssue(p)
    \/ \E p \in Procs : PiBarrier1Return(p)
    \/ \E p \in Procs : PiReduceIssue(p)
    \/ \E p \in Procs : PiReduceReturn(p)
    \/ \E p \in Procs : PiBarrier2Return(p)
    \/ \E p \in Procs : PiReport(p)

PiSpec == PiInit /\ [][PiNext]_vars

\* ------------------------------------------------------------ hello-world
\* hello.c, on the variables world_size, pc, issued, completed and out of
\* above and its own hostname.

\* The variables of the other programs, which this one leaves alone.
hvars == <<n, mem, data, scatterBuf, bcastBuf, gatherBuf, aborted, timer,
           total_samples, local_count, global_count>>

\* The names gethostname can store.
HostNames == {"node1", "node2"}

HelloInit ==
    /\ world_size \in 1 .. MaxProcs
    /\ pc = [p \in Procs |-> "names"]
    /\ hostname = [p \in Procs |-> ""]
    /\ issued = [p \in Procs |-> <<>>]
    /\ completed = [p \in Procs |-> 0]
    /\ out = [p \in Procs |-> <<>>]
    /\ timer = [p \in Procs |-> {}]
    /\ n = 0
    /\ mem = [p \in Procs |-> [b \in Buffers |-> "unset"]]
    /\ A = [p \in Procs |-> <<>>]
    /\ B = [p \in Procs |-> <<>>]
    /\ C = [p \in Procs |-> <<>>]
    /\ A_local = [p \in Procs |-> <<>>]
    /\ B_local = [p \in Procs |-> <<>>]
    /\ C_local = [p \in Procs |-> <<>>]
    /\ scatterBuf = <<>>
    /\ bcastBuf = <<>>
    /\ gatherBuf = [p \in Procs |-> <<>>]
    /\ aborted = FALSE
    /\ total_samples = 0
    /\ local_count = [p \in Procs |-> 0]
    /\ global_count = [p \in Procs |-> 0]

\* Lines 35-40: the names; when gethostname fails, hostname is "unknown".
HelloNames(p) ==
    /\ pc[p] = "names"
    /\ \E h \in HostNames \cup {"unknown"} :
          hostname' = [hostname EXCEPT ![p] = h]
    /\ pc' = [pc EXCEPT ![p] = "hello"]
    /\ UNCHANGED <<world_size, issued, completed, out, hvars>>

\* Lines 43-44: printf("Hello from rank %d of %d processes on host %s ...").
HelloPrint(p) ==
    /\ pc[p] = "hello"
    /\ out' = Printf(p, "Hello from rank")
    /\ pc' = [pc EXCEPT ![p] = "barrier1"]
    /\ UNCHANGED <<world_size, hostname, issued, completed, hvars>>

\* Line 47, the return of MPI_Barrier.
HelloBarrierReturn(p) ==
    /\ pc[p] = "barrier1_wait"
    /\ BarrierOpen(p)
    /\ completed' = Return(p)
    /\ pc' = [pc EXCEPT ![p] = "summary"]
    /\ UNCHANGED <<world_size, hostname, issued, out, hvars>>

\* Lines 50-63: rank 0 prints the summary; MPI_Finalize and return 0.
HelloSummary(p) ==
    /\ pc[p] = "summary"
    /\ out' = IF p = 0 THEN Printf(p, "MPI Hello World Summary") ELSE out
    /\ pc' = [pc EXCEPT ![p] = "done"]
    /\ UNCHANGED <<world_size, hostname, issued, completed, hvars>>

HelloNext ==
    \/ \E p \in Procs : HelloNames(p)
    \/ \E p \in Procs : HelloPrint(p)
    \/ \E p \in Procs : BarrierIssue(p)
    \/ \E p \in Procs : HelloBarrierReturn(p)
    \/ \E p \in Procs : HelloSummary(p)

HelloSpec == HelloInit /\ [][HelloNext]_vars

\* ------------------------------------------------------------ the claims

\* The configuration is valid: n >= N and N divides n.
ValidConfig == n >= world_size /\ n % world_size = 0

\* Element (i, j) of the matrix product of the n x n matrices Am and Bm:
\* the sum over k = 0 .. kmax of Am[i][k] * Bm[k][j].
RECURSIVE ProductSum(_, _, _, _, _)
ProductSum(Am, Bm, i, j, kmax) ==
    IF kmax < 0 THEN 0
    ELSE ProductSum(Am, Bm, i, j, kmax - 1)
         + Am[i * n + kmax + 1] * Bm[kmax * n + j + 1]

Rows == 0 .. (n - 1)
LocalRows == 0 .. (local_rows - 1)

\* C1: once the gather has returned on the coordinator, its full C is the
\* matrix product of its A and B: C[i][j] is the sum over k of
\* A[i][k] * B[k][j], whatever the number of participants.
C1_ProductOnCoordinator ==
    Returned(0, "gather") =>
        /\ Len(C[0]) = n * n
        /\ \A i, j \in Rows :
              C[0][i * n + j + 1] = ProductSum(A[0], B[0], i, j, n - 1)

C1_Witness ==
    /\ world_size = 2
    /\ n = 4
    /\ Returned(0, "gather")
    /\ \A i, j \in Rows :
          /\ C[0][i * n + j + 1] = ProductSum(A[0], B[0], i, j, n - 1)
          /\ C[0][i * n + j + 1] > 0

\* Rank p has left the run with the validator's rejection / has passed it.
Rejected(p) == pc[p] = "exit1"
Accepted(p) == pc[p] \notin {"validate", "exit1"}

\* C2: a participant is rejected by the validator exactly when n < N or
\* n % N # 0 (so n = N is accepted, n < N and n <= 0 are rejected), and no
\* two participants get different verdicts.
C2_ValidatorVerdict ==
    /\ \A p \in Procs :
          /\ Rejected(p) => (n < world_size \/ n % world_size # 0)
          /\ Accepted(p) => ~(n < world_size \/ n % world_size # 0)
    /\ \A p, q \in Procs : ~(Rejected(p) /\ Accepted(q))

C2_Witness ==
    /\ world_size = 3
    /\ n = world_size
    /\ \A p \in Procs : Accepted(p)

\* Rank p holds no buffer it allocated and has called no collective.
NoWork(p) ==
    /\ \A b \in Buffers : mem[p][b] \in {"unset", "NULL"}
    /\ issued[p] = <<>>

\* C3: with an invalid configuration no participant ever allocates a buffer
\* or calls a collective, none is stopped by MPI_Abort, and every one of
\* them goes on to exit with status 1.
C3_InvalidConfigExits ==
    /\ [](~ValidConfig =>
            /\ ~aborted
            /\ \A p \in Procs : pc[p] \in {"validate", "exit1"} /\ NoWork(p))
    /\ (~ValidConfig ~> (\A p \in Procs : pc[p] = "exit1" /\ NoWork(p)))

C3_Witness ==
    /\ world_size = 3
    /\ n = 4
    /\ \A p \in Procs : pc[p] = "exit1" /\ NoWork(p)

\* Some allocation of the run has failed.
AllocFailed == \E p \in Procs : \E b \in Buffers : mem[p][b] = "failed"

\* Rank p has terminated with a non-zero outcome.
TerminatedNonZero(p) == pc[p] \in {"exit1", "aborted", "killed"}

\* C4: once an allocation has failed on any participant, MPI_Abort has been
\* called and every participant goes on to terminate with a non-zero outcome:
\* none stays in a collective for ever.
C4_AllocFailureAbortsAll ==
    /\ [](AllocFailed => aborted)
    /\ (AllocFailed ~> (\A p \in Procs : TerminatedNonZero(p)))

C4_Witness ==
    /\ world_size = 3
    /\ mem[1]["B_local"] = "failed"
    /\ pc[1] = "aborted"
    /\ pc[0] = "killed" /\ InCall(0)
    /\ pc[2] = "killed"

\* C5: a run with a valid configuration in which no allocation fails ends
\* with every participant at exit status 0.
C5_ValidRunTerminates ==
    ValidConfig ~> (AllocFailed \/ \A p \in Procs : pc[p] = "exit0")

C5_Witness ==
    /\ world_size = 3
    /\ ValidConfig
    /\ \A p \in Procs : pc[p] = "exit0" /\ completed[p] = 5

\* The rows of the root's matrix that block i of the scatter covers.
BlockRows(i) ==
    {(BlockOffset(i, local_rows * n) + e) \div n :
        e \in 0 .. (local_rows * n - 1)}

\* C6: with a valid configuration, block i of the scatter is rows
\* i*local_rows .. (i+1)*local_rows - 1, the blocks are pairwise disjoint and
\* cover rows 0 .. n-1, and once the scatter has returned on participant p
\* its A_local holds exactly those rows of the coordinator's A.
C6_ScatterPartition ==
    ValidConfig =>
        /\ \A i \in Procs :
              BlockRows(i) = (i * local_rows) .. ((i + 1) * local_rows - 1)
        /\ \A i, k \in Procs : i # k => BlockRows(i) \cap BlockRows(k) = {}
        /\ UNION {BlockRows(i) : i \in Procs} = Rows
        /\ \A p \in Procs : Returned(p, "scatter") =>
              /\ Len(A_local[p]) = local_rows * n
              /\ \A r \in LocalRows, j \in Rows :
                    A_local[p][r * n + j + 1]
                        = A[0][(p * local_rows + r) * n + j + 1]

C6_Witness ==
    /\ world_size = 2
    /\ n = 4
    /\ \A p \in Procs : Returned(p, "scatter")
    /\ A_local[0] # A_local[1]
    /\ A_local[0] \o A_local[1] = A[0]

\* C7: a participant about to run the multiply kernel has returned from the
\* scatter and from the broadcast, holds its row block of the coordinator's A
\* in A_local and a copy of the coordinator's whole B in B_local.
C7_InputsReadyAtMultiply ==
    \A p \in Procs : pc[p] = "multiply" =>
        /\ Returned(p, "scatter")
        /\ Returned(p, "bcast")
        /\ A_local[p] = ScatterBlock(A[0], p, local_rows * n)
        /\ B_local[p] = B[0]
        /\ Len(B_local[p]) = n * n

C7_Witness ==
    /\ world_size = 3
    /\ \A p \in Procs : pc[p] = "multiply" /\ B_local[p] = B[0]
    /\ \E e \in DOMAIN B[0] : B[0][e] # Junk

\* The participants whose slice is written to row r of C by the gather.
RowWriters(r) ==
    {p \in Procs :
        \E e \in 0 .. (local_rows * n - 1) :
            (BlockOffset(p, local_rows * n) + e) \div n = r}

\* C8: once the gather has returned on the coordinator, row p*local_rows + r
\* of its C is row r of participant p's C_local, every row of C comes from
\* exactly one participant, and no other participant has a full C.
C8_GatherPlacement ==
    Returned(0, "gather") =>
        /\ \A p \in Procs : \A r \in LocalRows, j \in Rows :
              C[0][(p * local_rows + r) * n + j + 1]
                  = C_local[p][r * n + j + 1]
        /\ \A r \in Rows : Cardinality(RowWriters(r)) = 1
        /\ \A p \in Procs \ {0} : C[p] = <<>> /\ mem[p]["C"] = "NULL"

C8_Witness ==
    /\ world_size = 2
    /\ n = 4
    /\ Returned(0, "gather")
    /\ C_local[0] # C_local[1]
    /\ C[0] = C_local[0] \o C_local[1]

\* The collectives of a run, in the order main() calls them.
ExpectedCalls ==
    << Call("barrier", 0, 0),
       Call("scatter", 0, (n \div world_size) * n),
       Call("bcast", 0, n * n),
       Call("gather", 0, (n \div world_size) * n),
       Call("barrier", 0, 0) >>

\* s is an initial part of t.
IsPrefix(s, t) == Len(s) <= Len(t) /\ \A x \in DOMAIN s : s[x] = t[x]

\* C10: every participant's history of collective calls is an initial part
\* of barrier, scatter, broadcast, gather, barrier, with root 0 and the same
\* counts on every participant, and a participant has at most one call that
\* has not returned.
C10_CollectiveOrder ==
    \A p \in Procs :
        /\ IsPrefix(issued[p], ExpectedCalls)
        /\ completed[p] <= Len(issued[p])
        /\ Len(issued[p]) <= completed[p] + 1

C10_Witness ==
    /\ world_size = 3
    /\ \A p \in Procs : issued[p] = ExpectedCalls /\ completed[p] = 5

\* C9: round trip.  A scattered row-wise in blocks of local_rows * n elements
\* and the slices gathered back unmodified with the same block size and root
\* give, on the coordinator, a C equal to A.
C9_ScatterGatherRoundTrip ==
    Returned(0, "gather") => C[0] = A[0]

C9_Witness ==
    /\ world_size = 3
    /\ n = 3
    /\ Returned(0, "gather")
    /\ C[0] = A[0]
    /\ \A e \in DOMAIN A[0] : A[0][e] = e

\* The buffers every rank allocates, and those rank p allocates.
LocalBuffers == {"A_local", "B_local", "C_local"}
BuffersOf(p) == IF p = 0 THEN Buffers ELSE LocalBuffers

\* Rank p has left the run.
Left(p) == pc[p] \in {"exit0", "exit1", "aborted", "killed"}

\* C11 as stated: a participant that has left the run, on whatever path,
\* holds no buffer that it allocated and did not release.
C11_ReleasedOnEveryPath ==
    \A p \in Procs : Left(p) => \A b \in Buffers : mem[p][b] # "live"

\* C11 as amended: a participant that has returned from main (status 0 or 1)
\* holds no allocated buffer, and at status 0 it has freed every buffer it
\* allocated; a participant that has left through MPI_Abort has freed none,
\* so the buffers it had allocated are still allocated.
C11_ReleasedOnReturn ==
    \A p \in Procs :
        /\ pc[p] \in {"exit0", "exit1"} =>
              \A b \in Buffers : mem[p][b] # "live"
        /\ pc[p] = "exit0" => \A b \in BuffersOf(p) : mem[p][b] = "freed"
        /\ pc[p] \in {"aborted", "killed"} =>
              \A b \in Buffers : mem[p][b] # "freed"

C11_Witness ==
    /\ world_size = 3
    /\ \A p \in Procs :
          pc[p] = "exit0" /\ \A b \in BuffersOf(p) : mem[p][b] = "freed"

\* C12 as stated: no participant other than the coordinator ever prints.
C12_OnlyCoordinatorPrints ==
    \A p \in Procs \ {0} : out[p] = <<>>

\* C12 as amended: a participant other than the coordinator prints nothing,
\* except that one whose local allocation failed prints the allocation
\* failure message, once, before it calls MPI_Abort.
C12_OnlyAllocFailurePrinted ==
    \A p \in Procs \ {0} :
        \/ out[p] = <<>>
        \/ /\ out[p] = <<"Memory allocation failed">>
           /\ pc[p] = "aborted"
           /\ \E b \in LocalBuffers : mem[p][b] = "failed"

C12_Witness ==
    /\ world_size = 3
    /\ out[1] = <<"Memory allocation failed">>
    /\ out[2] = <<>> /\ pc[2] = "killed"
    /\ out[0] # <<>>

\* What rank p has done of the timed work: received its block of A, received
\* B, run the multiply kernel, handed its slice to the gather.
ReceivedA(p) == Returned(p, "scatter")
ReceivedB(p) == Returned(p, "bcast")
Multiplied(p) == pc[p] = "gather" \/ IssuedCount(p, "gather") >= 1
Contributed(p) == IssuedCount(p, "gather") >= 1

\* C13: whatever a participant has done of the timed work, it has done after
\* the coordinator read start_time; and when the coordinator has read
\* end_time, every participant has received its block of A and B, has run the
\* multiply kernel and has handed its slice to the gather.
C13_TimedIntervalCoversWork ==
    /\ \A p \in Procs :
          (ReceivedA(p) \/ ReceivedB(p) \/ Multiplied(p) \/ Contributed(p))
              => "start_time" \in timer[0]
    /\ "end_time" \in timer[0] =>
          \A p \in Procs :
              ReceivedA(p) /\ ReceivedB(p) /\ Multiplied(p) /\ Contributed(p)

C13_Witness ==
    /\ world_size = 3
    /\ timer[0] = {"start_time", "end_time"}
    /\ pc[0] = "report"
    /\ \A p \in Procs : Contributed(p) /\ ReceivedA(p) /\ ReceivedB(p)

\* The elements 0 .. n*n - 1 of the full matrix m have been written.
Initialized(m) ==
    /\ Len(m) = n * n
    /\ \A e \in DOMAIN m : m[e] # Junk

\* C14: when a participant has read start_time, every participant has
\* allocated its three local buffers and the coordinator has allocated and
\* initialized the full A and B.
C14_SetupBeforeTiming ==
    \A p \in Procs : "start_time" \in timer[p] =>
        /\ \A q \in Procs : \A b \in LocalBuffers :
              mem[q][b] \in {"live", "freed"}
        /\ mem[0]["A"] \in {"live", "freed"}
        /\ mem[0]["B"] \in {"live", "freed"}
        /\ Initialized(A[0])
        /\ Initialized(B[0])

C14_Witness ==
    /\ world_size = 3
    /\ timer[2] = {"start_time"}
    /\ pc[2] = "scatter"
    /\ pc[0] = "barrier1_wait"
    /\ pc[1] = "barrier1_wait"
    /\ Initialized(A[0])

\* C15: identity.  With B the n x n identity matrix, the C gathered on the
\* coordinator equals A, for every valid participant count.
C15_IdentityProduct ==
    (B[0] = Identity(n) /\ Returned(0, "gather")) => C[0] = A[0]

C15_Witness ==
    /\ world_size = 3
    /\ n = 3
    /\ B[0] = Identity(n)
    /\ Returned(0, "gather")
    /\ C[0] = A[0]
    /\ \A e \in DOMAIN A[0] : A[0][e] = e

\* Rank p runs the multiply kernel in this step.
KernelStep(p) == pc[p] = "multiply" /\ pc'[p] = "gather"

\* C17: a run of the kernel on participant p changes no buffer but p's
\* C_local: A_local and B_local are as before, and every one of the
\* local_rows * n elements of C_local is the sum over k of
\* A_local[i][k] * B_local[k][j], whatever C_local held before.
C17_KernelFrame ==
    [][\A p \in Procs : KernelStep(p) =>
          /\ A_local' = A_local
          /\ B_local' = B_local
          /\ <<A, B, C>>' = <<A, B, C>>
          /\ \A q \in Procs \ {p} : C_local'[q] = C_local[q]
          /\ Len(C_local'[p]) = local_rows * n
          /\ \A i \in LocalRows, j \in Rows :
                C_local'[p][i * n + j + 1]
                    = ProductSum(A_local[p], B_local[p], i, j, n - 1)]_vars

C17_Witness ==
    /\ world_size = 2
    /\ n = 4
    /\ pc[0] = "gather"
    /\ pc[1] = "multiply"
    /\ C_local[1] = Fill(local_rows * n, 1)
    /\ \A i \in LocalRows, j \in Rows :
          /\ C_local[0][i * n + j + 1]
                = ProductSum(A_local[0], B_local[0], i, j, n - 1)
          /\ C_local[0][i * n + j + 1] > 1

\* The content of rank p's three local buffers.
LocalContent(p) == <<A_local[p], B_local[p], C_local[p]>>

\* C16: ownership.  On every participant other than 0 the full matrices A, B
\* and C stay NULL for the whole run, and the content of a participant's
\* A_local, B_local and C_local changes only in a step of that participant
\* (a local step, or its return from a collective), never in a step of
\* another one.
C16_Ownership ==
    /\ [](\A p \in Procs \ {0} :
             /\ \A b \in {"A", "B", "C"} : mem[p][b] = "NULL"
             /\ A[p] = <<>> /\ B[p] = <<>> /\ C[p] = <<>>)
    /\ [][\A p \in Procs :
             LocalContent(p)' # LocalContent(p) => pc'[p] # pc[p]]_vars

C16_Witness ==
    /\ world_size = 3
    /\ mem[0]["A"] = "live" /\ mem[0]["B"] = "live" /\ mem[0]["C"] = "live"
    /\ \A p \in Procs \ {0} :
          /\ \A b \in {"A", "B", "C"} : mem[p][b] = "NULL"
          /\ pc[p] = "gather"
          /\ \A e \in DOMAIN C_local[p] : C_local[p][e] # Junk
    /\ pc[0] = "bcast_wait"

\* r is the product a * b of the integers a and b > 0 (stated by division, as
\* the product itself may not be an int).
IsProduct(r, a, b) == r \div b = a /\ r % b = 0

\* C18: for every dimension the validator accepts, the counts the program
\* hands to scatter, broadcast and gather, computed in int, are the products
\* local_rows * n and n * n.
C18_CountsAreProducts ==
    \A p \in Procs : \A x \in DOMAIN issued[p] :
        /\ issued[p][x].kind \in {"scatter", "gather"} =>
              IsProduct(issued[p][x].count, local_rows, n)
        /\ issued[p][x].kind = "bcast" => IsProduct(issued[p][x].count, n, n)

\* The sum of the local_count of the ranks 0 .. k.
RECURSIVE SumLocal(_)
SumLocal(k) == IF k < 0 THEN 0 ELSE SumLocal(k - 1) + local_count[k]

\* C19: in pi-monte-carlo with total_samples >= N, once MPI_Reduce has
\* returned on rank 0 its global_count is the sum of the N local_count and
\* 0 <= global_count <= samples_per_proc * N <= total_samples, where
\* samples_per_proc is the floor of total_samples / N; with
\* total_samples < N every rank goes to the exit with status 1 and calls
\* neither a barrier nor a reduce.
C19_ReduceSum ==
    /\ (total_samples >= world_size /\ Returned(0, "reduce")) =>
          /\ global_count[0] = SumLocal(world_size - 1)
          /\ 0 <= global_count[0]
          /\ global_count[0] <= samples_per_proc * world_size
          /\ samples_per_proc * world_size <= total_samples
          /\ samples_per_proc * world_size > total_samples - world_size
    /\ total_samples < world_size =>
          \A p \in Procs : /\ pc[p] \in {"validate", "exit1"}
                           /\ issued[p] = <<>>

\* The reduce has returned on rank 0 of several, whose shares do not use up
\* total_samples, with points inside and outside the circle.
C19_Witness ==
    /\ world_size >= 2
    /\ total_samples % world_size # 0
    /\ Returned(0, "reduce")
    /\ \E p \in Procs : local_count[p] # local_count[0]
    /\ global_count[0] > 0
    /\ global_count[0] < samples_per_proc * world_size

\* What rank p has printed of message msg.
Printed(p, msg) == Cardinality({x \in DOMAIN out[p] : out[p][x] = msg})

\* C20: in hello-world rank 0 prints its summary only when every rank has
\* printed its "Hello from rank" line; a rank prints that line once, before
\* its barrier, and no other rank prints the summary.
C20_SummaryAfterHellos ==
    /\ Printed(0, "MPI Hello World Summary") > 0 =>
          \A p \in Procs : Printed(p, "Hello from rank") = 1
    /\ \A p \in Procs :
          /\ Printed(p, "Hello from rank") =
                IF pc[p] \in {"names", "hello"} THEN 0 ELSE 1
          /\ Printed(p, "MPI Hello World Summary") =
                IF p = 0 /\ pc[p] = "done" THEN 1 ELSE 0

\* Rank 0 of several has printed the summary while another rank is still
\* in the barrier.
C20_Witness ==
    /\ world_size >= 2
    /\ Printed(0, "MPI Hello World Summary") = 1
    /\ \E p \in Procs : pc[p] = "barrier1_wait"
    /\ \E p \in Procs : hostname[p] = "unknown"
====
